---- MODULE Spec2Model ----
(***************************************************************************)
(* Anchor context engine: the memory relation and the operations that      *)
(* write it (ingestContent, the legacy POST /v1/ingest, the file watcher,  *)
(* the dreamer, GET /v1/backup, hydrate and boot-time auto-hydration), the *)
(* Tag-Walker search (engram lookup, FTS anchors, neighbor walk,           *)
(* provenance boost) and the final budgeting pass of the semantic search.  *)
(*                                                                         *)
(* Strings the code inspects character by character (content, source,      *)
(* query, path) are sequences of one-character strings.  A memory row is a *)
(* record; the relation is a set of rows with pairwise distinct ids.  The  *)
(* legacy single `bucket: String` column and the `buckets: [String]`       *)
(* column are one field `buckets`: a legacy bucket b is the list <<b>>.    *)
(*                                                                         *)
(* Spec       : the services generation (ingestContent, watcher, dreamer,  *)
(*              hydrate, autoHydrate of core/db).                          *)
(* SpecSearch : rows with tags and provenance, engrams, executeSearch.     *)
(* SpecLegacy : POST /v1/ingest, GET /v1/backup, autoHydrate of index.js.  *)
(* SpecBudget : the final budgeting pass over inflated windows.            *)
(* SpecWatcher: the file watcher alone, with throws inside its try block.  *)
(* SpecRace   : two watcher events handled concurrently, step by step.     *)
(* SpecChat   : chat() and the Scribe session state.                       *)
(* SpecBuckets: ingestContent and GET /v1/buckets.                         *)
(* SpecDensity: the Dynamic Density sizing of the Context Inflator.        *)
(* SpecIngestRace: two ingestContent calls in flight, step by step.        *)
(* SpecInference: loadModel calls in flight over the module's globals.     *)
(* SpecBoot   : boot() with init() of core/db, then the watcher's events;  *)
(*              SpecBootFair adds the event loop's fairness.               *)
(***************************************************************************)
EXTENDS Integers, Sequences, FiniteSets, TLC

VARIABLES memory, engrams, backups, clock, last, inflight, inference

vars == <<memory, engrams, backups, clock, last, inflight, inference>>

\* The globals of services/inference.js before any model is loaded:
\* model, context and session are null, currentModelName is ''.  A model
\* stands for its name, a context for the name of the model that created
\* it, a session for the context it was built on; null is <<>>.
NoInference ==
    [model |-> <<>>, context |-> <<>>, session |-> <<>>,
     currentModelName |-> <<>>]

(***************************************************************************)
(* Bounds                                                                  *)
(***************************************************************************)
\* Date.now() readings available to operations that write a row.
MaxClock == 2
\* Snapshot files the backups directory can hold.
MaxBackups == 1

(***************************************************************************)
(* Strings                                                                 *)
(***************************************************************************)
\* ""
Empty == <<>>

S_core == <<"c", "o", "r", "e">>
S_A == <<"A">>
S_B == <<"B">>
S_text == <<"t", "e", "x", "t">>
S_unknown == <<"u", "n", "k", "n", "o", "w", "n">>

\* The characters that occur in ids, in code-point order.
Alphabet ==
    <<" ", "!", ".", "/", "A", "B", "_", "a", "b", "c", "d", "e", "f", "g", "h",
      "i", "j", "k", "l", "m", "n", "o", "p", "q", "r", "s", "t", "u", "v", "w",
      "x", "y", "z">>

CharRank(c) == CHOOSE i \in 1..Len(Alphabet) : Alphabet[i] = c

RECURSIVE StrLess(_, _)
StrLess(s, t) ==
    IF t = Empty THEN FALSE
    ELSE IF s = Empty THEN TRUE
    ELSE IF Head(s) # Head(t) THEN CharRank(Head(s)) < CharRank(Head(t))
    ELSE StrLess(Tail(s), Tail(t))

UpperCase ==
    <<"A", "B", "C", "D", "E", "F", "G", "H", "I", "J", "K", "L", "M", "N", "O",
      "P", "Q", "R", "S", "T", "U", "V", "W", "X", "Y", "Z">>

LowerCase ==
    <<"a", "b", "c", "d", "e", "f", "g", "h", "i", "j", "k", "l", "m", "n", "o",
      "p", "q", "r", "s", "t", "u", "v", "w", "x", "y", "z">>

Range(f) == { f[i] : i \in DOMAIN f }

\* s.toLowerCase()
ToLowerCase(s) ==
    [i \in 1..Len(s) |->
        IF s[i] \in Range(UpperCase)
        THEN LowerCase[CHOOSE k \in 1..Len(UpperCase) : UpperCase[k] = s[i]]
        ELSE s[i]]

\* a || b on strings: a unless it is empty.
OrElse(a, b) == IF a # Empty THEN a ELSE b

\* crypto.createHash('md5').update(content).digest('hex')
Md5(content) == <<"md5", content>>

(***************************************************************************)
(* Input domains                                                           *)
(***************************************************************************)
\* Document bodies: "a", "b a".
Contents == { <<"a">>, <<"b", " ", "a">> }

\* The `filename` and `source` arguments; "" stands for an absent one.
SourceArgs ==
    { [filename |-> Empty, source |-> <<"s">>],
      [filename |-> <<"f">>, source |-> Empty] }

\* The `buckets` argument: absent (the default applies) or a list.
BucketArgs ==
    { [given |-> FALSE, buckets |-> <<>>] } \cup
    { [given |-> TRUE, buckets |-> b] : b \in { <<>>, <<S_A>>, <<S_B>> } }

(***************************************************************************)
(* Ids.  doc_<Date.now()>_<rand> is <<"doc", n>>; file_<base64(relPath)>   *)
(* is <<"file", relPath>>; test_<name>_<Date.now()> is <<"test", name>>.   *)
(* Cozo returns rows in ascending key order: "doc_..." before "file_..."   *)
(* before "test_...".                                                      *)
(***************************************************************************)
DocId(n) == <<"doc", n>>

FileId(relPath) == <<"file", relPath>>

TestId(name) == <<"test", name>>

IdLess(a, b) ==
    IF a[1] # b[1]
    THEN a[1] = "doc" \/ (a[1] = "file" /\ b[1] = "test")
    ELSE IF a[1] = "doc" THEN a[2] < b[2]
    ELSE StrLess(a[2], b[2])

(***************************************************************************)
(* The memory relation                                                     *)
(***************************************************************************)
\* Value of a column the writer does not bind.
Unbound == "unbound"

Row(id, timestamp, content, source, type, hash, buckets) ==
    [id |-> id, timestamp |-> timestamp, content |-> content,
     source |-> source, type |-> type, hash |-> hash, buckets |-> buckets,
     tags |-> <<>>, provenance |-> Unbound]

Ids(mem) == { r.id : r \in mem }

\* rows[0][0] of a `?[id] := ...` result: the least id.
FirstId(rows) == CHOOSE i \in Ids(rows) : \A j \in Ids(rows) : i = j \/ IdLess(i, j)

\* :put  -- upsert by key.
Put(mem, row) == { r \in mem : r.id # row.id } \cup { row }

\* ?[id] := *memory{id, hash: $hash}
RowsByHash(mem, hash) == { r \in mem : r.hash = hash }

\* ?[id] := *memory{id, hash: $hash, bucket: $bucket}
RowsByHashBucket(mem, hash, bucket) ==
    { r \in mem : r.hash = hash /\ r.buckets = <<bucket>> }

(***************************************************************************)
(* services/ingest.js  ingestContent                                       *)
(***************************************************************************)
\* ingestContent with the duplicate check keyed on (hash, buckets), as the
\* legacy endpoint keys it on (hash, bucket).
IngestContentOutcome_BucketKey(mem, now, content, filename, source, type, buckets) ==
    IF content = Empty
    THEN [status |-> "error", id |-> DocId(0), memory |-> mem]
    ELSE LET hash == Md5(content)
             found == { r \in RowsByHash(mem, hash) : r.buckets = buckets }
         IN  IF found # {}
             THEN [status |-> "skipped", id |-> FirstId(found), memory |-> mem]
             ELSE LET id == DocId(now)
                      row == Row(id, now, content,
                                 OrElse(source, OrElse(filename, S_unknown)),
                                 type, hash, buckets)
                  IN  IF id \in Ids(mem)
                      THEN [status |-> "error", id |-> id, memory |-> mem]
                      ELSE [status |-> "success", id |-> id,
                            memory |-> mem \cup { row }]

\* ingestContent with the digest taken over content and source.
IngestContentOutcome_SourceHash(mem, now, content, filename, source, type, buckets) ==
    IF content = Empty
    THEN [status |-> "error", id |-> DocId(0), memory |-> mem]
    ELSE LET src   == OrElse(source, OrElse(filename, S_unknown))
             hash  == Md5(content \o <<"|">> \o src)
             found == RowsByHash(mem, hash)
         IN  IF found # {}
             THEN [status |-> "skipped", id |-> FirstId(found), memory |-> mem]
             ELSE LET id == DocId(now)
                      row == Row(id, now, content, src, type, hash, buckets)
                  IN  IF id \in Ids(mem)
                      THEN [status |-> "error", id |-> id, memory |-> mem]
                      ELSE [status |-> "success", id |-> id,
                            memory |-> mem \cup { row }]

\* The response and the relation after ingestContent(content, filename,
\* source, type, buckets) run at Date.now() = now.  :insert rejects a key
\* that is already stored.
IngestContentOutcome(mem, now, content, filename, source, type, buckets) ==
    IF content = Empty
    THEN [status |-> "error", id |-> DocId(0), memory |-> mem]
    ELSE LET hash == Md5(content)
             found == RowsByHash(mem, hash)
         IN  IF found # {}
             THEN [status |-> "skipped", id |-> FirstId(found), memory |-> mem]
             ELSE LET id == DocId(now)
                      row == Row(id, now, content,
                                 OrElse(source, OrElse(filename, S_unknown)),
                                 type, hash, buckets)
                  IN  IF id \in Ids(mem)
                      THEN [status |-> "error", id |-> id, memory |-> mem]
                      ELSE [status |-> "success", id |-> id,
                            memory |-> mem \cup { row }]

\* History: the operation just before this call was an ingestContent call
\* that completed on the same content.
Repeats(content) ==
    /\ last.op = "ingestContent"
    /\ last.status \in { "success", "skipped" }
    /\ \E r \in memory : r.id = last.id /\ r.content = content

\* History: the call just before stored the same content under ['A'] from
\* another source, and this call names ['B'].
Rebuckets(content, filename, source, buckets) ==
    /\ last.op = "ingestContent"
    /\ last.status = "success"
    /\ buckets = <<S_B>>
    /\ \E r \in memory :
          /\ r.id = last.id /\ r.content = content /\ r.buckets = <<S_A>>
          /\ r.source # OrElse(source, OrElse(filename, S_unknown))

ingestContent(content, filename, source, given, bucketsArg) ==
    LET buckets == IF given THEN bucketsArg ELSE <<S_core>>
        now     == clock + 1
        out     == IngestContentOutcome(memory, now, content, filename, source,
                                        S_text, buckets)
    IN  /\ out.status = "success" => clock < MaxClock
        /\ memory' = out.memory
        /\ clock' = IF out.status = "success" THEN now ELSE clock
        /\ last' = [op |-> "ingestContent", status |-> out.status, id |-> out.id,
                    repeat |-> Repeats(content),
                    rebucket |-> Rebuckets(content, filename, source, buckets)]
        /\ UNCHANGED <<engrams, backups, inflight, inference>>

(***************************************************************************)
(* services/watcher.js  handleFileChange                                   *)
(***************************************************************************)
\* 100 * 1024 * 1024
MaxFileBytes == 104857600

\* 'cozo_memory_snapshot_'
S_snapshot == <<"c", "o", "z", "o", "_", "m", "e", "m", "o", "r", "y", "_",
                "s", "n", "a", "p", "s", "h", "o", "t", "_">>

\* s.includes(pat)
Includes(s, pat) ==
    \E i \in 0..(Len(s) - Len(pat)) : SubSeq(s, i + 1, i + Len(pat)) = pat

\* s.split(sep): the segments of s between occurrences of the character sep.
RECURSIVE Split(_, _)
Split(s, sep) ==
    IF \A i \in 1..Len(s) : s[i] # sep THEN <<s>>
    ELSE LET k == CHOOSE i \in 1..Len(s) :
                      s[i] = sep /\ \A j \in 1..(i - 1) : s[j] # sep
         IN  <<SubSeq(s, 1, k - 1)>> \o Split(SubSeq(s, k + 1, Len(s)), sep)

\* path.extname(p): from the last '.' of the base name, '' when there is
\* none or the base name only starts with one.
ExtName(p) ==
    LET parts == Split(p, "/")
        base  == parts[Len(parts)]
        dots  == { i \in 1..Len(base) : base[i] = "." }
    IN  IF dots = {} THEN Empty
        ELSE LET k == CHOOSE i \in dots : \A j \in dots : j <= i
             IN  IF k = 1 THEN Empty ELSE SubSeq(base, k, Len(base))

\* textExtensions (lower-cased extensions the watcher ingests)
TextExtensions ==
    { <<".", "t", "x", "t">>, <<".", "m", "d">>, <<".", "j", "s", "o", "n">>,
      <<".", "y", "a", "m", "l">>, <<".", "y", "m", "l">>, <<".", "j", "s">>,
      <<".", "t", "s">>, <<".", "p", "y">>, <<".", "h", "t", "m", "l">>,
      <<".", "c", "s", "s">>, <<".", "b", "a", "t">>, <<".", "p", "s", "1">>,
      <<".", "s", "h">> }

\* Files under the watched directory, by path relative to it:
\* "n.md", "A/x.md".
Paths == { <<"n", ".", "m", "d">>, <<"A", "/", "x", ".", "m", "d">> }

\* More files for the watcher taken alone: "A/r" without extension, "n.MD",
\* and two the filters reject, "n.png" and "cozo_memory_snapshot_a.yaml".
WatchedPaths ==
    Paths \cup
    { <<"A", "/", "r">>, <<"n", ".", "M", "D">>, <<"n", ".", "p", "n", "g">>,
      S_snapshot \o <<"a", ".", "y", "a", "m", "l">> }

\* What fs.statSync reports: a regular file of some size, a directory, or a
\* throw because the file is gone.
FileStats ==
    { [kind |-> "file", size |-> 1], [kind |-> "file", size |-> MaxFileBytes + 1],
      [kind |-> "dir", size |-> 0], [kind |-> "gone", size |-> 0] }

\* Auto-Bucket Logic: top-level folder name, 'core' for a file in the root.
AutoBucket(relPath) ==
    LET pathParts == Split(relPath, "/")
    IN  IF Len(pathParts) > 1 THEN pathParts[1] ELSE S_core

\* The file passes the watcher's filters.
Eligible(relPath, kind, size, limit) ==
    /\ ~Includes(relPath, S_snapshot)
    /\ kind = "file"
    /\ size <= limit
    /\ ToLowerCase(ExtName(relPath)) \in TextExtensions \cup { Empty }

\* handleFileChange writing with :insert-like semantics that keep a row
\* already stored under the file's id.
HandleFileChangeOutcome_KeepOld(mem, now, relPath, kind, size, content, limit) ==
    IF kind = "gone" THEN [status |-> "error", memory |-> mem]
    ELSE IF ~Eligible(relPath, kind, size, limit)
    THEN [status |-> "ignored", memory |-> mem]
    ELSE IF RowsByHashBucket(mem, Md5(content), AutoBucket(relPath)) # {}
    THEN [status |-> "skipped", memory |-> mem]
    ELSE [status |-> "ingested",
          memory |-> IF FileId(relPath) \in Ids(mem) THEN mem
                     ELSE Put(mem, Row(FileId(relPath), now, content, relPath,
                                       OrElse(ToLowerCase(ExtName(relPath)), S_text),
                                       Md5(content), <<AutoBucket(relPath)>>))]

\* handleFileChange without the size test.
HandleFileChangeOutcome_AnySize(mem, now, relPath, kind, size, content, limit) ==
    IF kind = "gone" THEN [status |-> "error", memory |-> mem]
    ELSE IF ~Eligible(relPath, kind, 0, limit)
    THEN [status |-> "ignored", memory |-> mem]
    ELSE IF RowsByHashBucket(mem, Md5(content), AutoBucket(relPath)) # {}
    THEN [status |-> "skipped", memory |-> mem]
    ELSE [status |-> "ingested",
          memory |-> Put(mem, Row(FileId(relPath), now, content, relPath,
                                  OrElse(ToLowerCase(ExtName(relPath)), S_text),
                                  Md5(content), <<AutoBucket(relPath)>>))]

\* handleFileChange without the deduplication check.
HandleFileChangeOutcome_NoCheck(mem, now, relPath, kind, size, content, limit) ==
    IF kind = "gone" THEN [status |-> "error", memory |-> mem]
    ELSE IF ~Eligible(relPath, kind, size, limit)
    THEN [status |-> "ignored", memory |-> mem]
    ELSE [status |-> "ingested",
          memory |-> Put(mem, Row(FileId(relPath), now, content, relPath,
                                  OrElse(ToLowerCase(ExtName(relPath)), S_text),
                                  Md5(content), <<AutoBucket(relPath)>>))]

\* The outcome of handleFileChange for the file at relPath, with what
\* statSync and readFileSync return, run at Date.now() = now.
HandleFileChangeOutcome(mem, now, relPath, kind, size, content, limit) ==
    IF Includes(relPath, S_snapshot) THEN [status |-> "ignored", memory |-> mem]
    ELSE IF kind = "gone" THEN [status |-> "error", memory |-> mem]
    ELSE IF kind = "dir" THEN [status |-> "ignored", memory |-> mem]
    ELSE IF size > limit THEN [status |-> "ignored", memory |-> mem]
    ELSE LET ext == ToLowerCase(ExtName(relPath))
         IN  IF ext \notin TextExtensions /\ ext # Empty
             THEN [status |-> "ignored", memory |-> mem]
             ELSE LET hash   == Md5(content)
                      bucket == AutoBucket(relPath)
                  IN  IF RowsByHashBucket(mem, hash, bucket) # {}
                      THEN [status |-> "skipped", memory |-> mem]
                      ELSE [status |-> "ingested",
                            memory |-> Put(mem, Row(FileId(relPath), now, content,
                                                    relPath, OrElse(ext, S_text),
                                                    hash, <<bucket>>))]

\* Where a call can throw inside the try block besides statSync: in
\* readFileSync, in the db.run of the deduplication check, or in the db.run
\* of the :put.
Faults == { "none", "read", "check", "put" }

\* handleFileChange with the :put outside the try block: its throw rejects
\* the promise.
HandleFileChangeFaulty_Uncaught(mem, now, relPath, kind, size, content, limit, fault) ==
    IF fault = "put" /\ Eligible(relPath, kind, size, limit)
       /\ RowsByHashBucket(mem, Md5(content), AutoBucket(relPath)) = {}
    THEN [status |-> "rejected", memory |-> mem]
    ELSE [status |-> "error", memory |-> mem]

\* handleFileChange with a fault: the throw is caught by the catch block,
\* which logs it; a :put that throws has written nothing.  A fault that is
\* placed after the point where the call returns does not happen.
HandleFileChangeFaulty(mem, now, relPath, kind, size, content, limit, fault) ==
    LET out == HandleFileChangeOutcome(mem, now, relPath, kind, size, content,
                                       limit)
    IN  IF fault = "none" \/ out.status \in { "ignored", "error" } THEN out
        ELSE IF fault = "put" /\ out.status = "skipped" THEN out
        ELSE [status |-> "error", memory |-> mem]

\* History: the row stored under the file's id held another hash.
HashChanged(relPath, content) ==
    \E r \in memory : r.id = FileId(relPath) /\ r.hash # Md5(content)

\* History: the row stored under the file's id holds this content.
HashKept(relPath, content) ==
    \E r \in memory :
       r.id = FileId(relPath) /\ r.content = content /\ r.hash = Md5(content)

\* One add or change event.  A promise of handleFileChange that rejects is
\* not handled by the listeners of setupFileWatcher and ends the process:
\* no event is processed after it.
handleFileChange(relPath, kind, size, content, fault) ==
    LET now == clock + 1
        out == HandleFileChangeFaulty(memory, now, relPath, kind, size, content,
                                      MaxFileBytes, fault)
    IN  /\ ~(last.op = "handleFileChange" /\ last.status = "rejected")
        /\ out.status = "ingested" => clock < MaxClock
        /\ memory' = out.memory
        /\ clock' = IF out.status = "ingested" THEN now ELSE clock
        /\ last' = [op |-> "handleFileChange", status |-> out.status,
                    changed |-> out.status # "ignored" /\ HashChanged(relPath, content),
                    kept |-> out.status # "ignored" /\ HashKept(relPath, content)]
        /\ UNCHANGED <<engrams, backups, inflight, inference>>

(***************************************************************************)
(* services/dreamer.js  dream                                              *)
(***************************************************************************)
\* Arrays inference.generateTags can return (the parsed model answer, or
\* ['core'] when the answer holds no list or inference fails).
TagAnswers == { <<>>, <<S_core>>, <<S_A>> }

\* Memories that need tagging: no buckets, or just 'core'.
Untagged(mem) == { r \in mem : r.buckets = <<>> \/ r.buckets = <<S_core>> }

\* dream writing with :put memory {id, buckets}, which replaces the whole
\* row: the columns it does not name are lost.
DreamOutcome_Put(mem, answer) ==
    { IF r \in Untagged(mem) /\ answer[r.id] # <<>>
      THEN [r EXCEPT !.buckets = answer[r.id], !.content = Empty,
                     !.hash = Md5(Empty)]
      ELSE r : r \in mem }

\* :update memory {id, buckets} for every analyzed row whose answer is a
\* non-empty array; answer maps the id of each analyzed row to its answer.
DreamOutcome(mem, answer) ==
    { IF r \in Untagged(mem) /\ answer[r.id] # <<>>
      THEN [r EXCEPT !.buckets = answer[r.id]]
      ELSE r : r \in mem }

dream ==
    \E answer \in [Ids(Untagged(memory)) -> TagAnswers] :
        /\ memory' = DreamOutcome(memory, answer)
        /\ last' = [op |-> "dream",
                    analyzed |-> Cardinality(Untagged(memory)),
                    updated |-> Cardinality({ i \in DOMAIN answer :
                                                answer[i] # <<>> })]
        /\ UNCHANGED <<engrams, backups, clock, inflight, inference>>

(***************************************************************************)
(* hydrate.js  hydrate                                                     *)
(***************************************************************************)
BATCH_SIZE == 100

\* A record field the snapshot does not carry.
NoHash == <<"none", Empty>>
NoBucket == << <<"?">> >>

\* r.hash || getHash(r.content)
BackfillHash(r) == IF r.hash = NoHash THEN Md5(r.content) ELSE r.hash

\* r.bucket || 'core': an absent bucket and the empty string are falsy.
BackfillBucket(r) ==
    IF r.bucket = NoBucket \/ r.bucket = <<Empty>> THEN <<S_core>> ELSE r.bucket

\* parseInt(r.timestamp) of an integer timestamp.
ParseInt(t) == t

\* Map legacy records to new format.
HydrateValue(r) ==
    Row(r.id, ParseInt(r.timestamp), r.content, r.source, r.type,
        BackfillHash(r), BackfillBucket(r))

RECURSIVE PutAll(_, _)
PutAll(mem, values) ==
    IF values = <<>> THEN mem
    ELSE PutAll(Put(mem, HydrateValue(Head(values))), Tail(values))

\* A content that is not a string (a YAML null), and the records the typed
\* relation accepts: db.run of a batch throws when one of its rows has a
\* column of the wrong type, and a :put of several rows is one transaction.
NullContent == <<"null">>

Storable(r) == r.content # NullContent

\* The while loop over batches of BATCH_SIZE records; a db.run that throws
\* leaves the loop for the catch block of hydrate.
RECURSIVE HydrateBatches(_, _, _)
HydrateBatches(mem, records, processed) ==
    IF processed >= Len(records) THEN mem
    ELSE LET upto  == IF processed + BATCH_SIZE < Len(records)
                      THEN processed + BATCH_SIZE ELSE Len(records)
             batch == SubSeq(records, processed + 1, upto)
         IN  IF \E i \in 1..Len(batch) : ~Storable(batch[i]) THEN mem
             ELSE HydrateBatches(PutAll(mem, batch), records,
                                 processed + Len(batch))

\* hydrate(db, filePath) with the parsed file: anything but an array is
\* "Invalid snapshot format", caught and logged.
HydrateOutcome(mem, file) ==
    IF ~file.isArray THEN mem ELSE HydrateBatches(mem, file.records, 0)

\* Snapshot files handed to the engine from outside: a full record made in
\* an earlier session and a bare one without hash and bucket.
RecFull ==
    [id |-> DocId(0), timestamp |-> 0, content |-> <<"a">>, source |-> <<"s">>,
     type |-> S_text, hash |-> Md5(<<"a">>), bucket |-> <<S_B>>]

RecBare ==
    [id |-> FileId(<<"n", ".", "m", "d">>), timestamp |-> 0,
     content |-> <<"b", " ", "a">>, source |-> <<"n", ".", "m", "d">>,
     type |-> <<".", "m", "d">>, hash |-> NoHash, bucket |-> NoBucket]

\* A record whose content the relation rejects.
RecNull ==
    [id |-> DocId(1), timestamp |-> 0, content |-> NullContent,
     source |-> <<"s">>, type |-> S_text, hash |-> NoHash, bucket |-> <<S_A>>]

SnapshotFiles ==
    { [isArray |-> FALSE, records |-> <<>>] } \cup
    { [isArray |-> TRUE, records |-> rs] :
        rs \in { <<>>, <<RecFull, RecBare>>, <<RecFull, RecNull>> } }

\* node src/hydrate.js <snapshot.yaml>
hydrate(file) ==
    /\ memory' = HydrateOutcome(memory, file)
    /\ last' = [op |-> "hydrate"]
    /\ UNCHANGED <<engrams, backups, clock, inflight, inference>>

(***************************************************************************)
(* core/db.js  autoHydrate                                                 *)
(***************************************************************************)
\* files: the snapshots of BACKUPS_DIR, newest last.  rmOk: whether the
\* engine accepts the clearing statement '~memory :rm'; when it rejects it
\* the error is caught and nothing is loaded.
AutoHydrateCoreOutcome(mem, dirExists, files, rmOk) ==
    IF ~dirExists THEN mem
    ELSE IF Len(files) = 0 THEN mem
    ELSE IF ~rmOk THEN mem
    ELSE HydrateOutcome({}, files[Len(files)])

\* States of BACKUPS_DIR at boot.
BackupDirs ==
    { [exists |-> FALSE, files |-> <<>>, rmOk |-> TRUE],
      [exists |-> TRUE, files |-> <<>>, rmOk |-> TRUE] } \cup
    { [exists |-> TRUE, files |-> <<f>>, rmOk |-> ok] :
        f \in SnapshotFiles, ok \in BOOLEAN }

\* The auto-hydration finds a snapshot and fails: the clearing statement is
\* rejected, or the newest snapshot is not a list of records or holds a
\* record that cannot be written.
HydrationFails(dir) ==
    /\ dir.exists
    /\ dir.files # <<>>
    /\ LET file == dir.files[Len(dir.files)]
       IN  \/ ~dir.rmOk
           \/ ~file.isArray
           \/ \E i \in 1..Len(file.records) : ~Storable(file.records[i])

autoHydrateCore(dirExists, files, rmOk) ==
    /\ memory' = AutoHydrateCoreOutcome(memory, dirExists, files, rmOk)
    /\ last' = [op |-> "autoHydrate"]
    /\ UNCHANGED <<engrams, backups, clock, inflight, inference>>

(***************************************************************************)
(* Specification of the services generation of the store                   *)
(***************************************************************************)
Init ==
    /\ memory = {}
    /\ engrams = {}
    /\ backups = <<>>
    /\ clock = 0
    /\ last = [op |-> "init"]
    /\ inflight = {}
    /\ inference = NoInference

Next ==
    \/ \E c \in Contents \cup {Empty}, a \in SourceArgs, b \in BucketArgs :
          ingestContent(c, a.filename, a.source, b.given, b.buckets)
    \/ \E p \in Paths, st \in FileStats, c \in Contents :
          handleFileChange(p, st.kind, st.size, c, "none")
    \/ dream
    \/ \E file \in SnapshotFiles : hydrate(file)
    \/ \E dir \in BackupDirs : autoHydrateCore(dir.exists, dir.files, dir.rmOk)

Spec == Init /\ [][Next]_vars

(***************************************************************************)
(* Specification of the file watcher taken alone: setupFileWatcher routes  *)
(* every add and change event of the watched directory to handleFileChange *)
(***************************************************************************)
NextWatcher ==
    \E p \in WatchedPaths, st \in FileStats, c \in Contents, f \in Faults :
       handleFileChange(p, st.kind, st.size, c, f)

SpecWatcher == Init /\ [][NextWatcher]_vars


(***************************************************************************)
(* Properties of the services generation                                   *)
(***************************************************************************)
\* C1: when ingestContent has completed on a content and is called again on
\* the same content, with any filename, source and buckets, the second call
\* answers 'skipped' with the id the first call answered and the memory
\* relation is left as it was.
C1_ReingestSkipsWithSameId ==
    [][(last.op = "ingestContent" /\ last'.op = "ingestContent") =>
          \A c \in Contents, a \in SourceArgs, b \in BucketArgs :
             ( /\ Repeats(c)
               /\ ingestContent(c, a.filename, a.source, b.given, b.buckets) )
             => /\ last'.status = "skipped"
                /\ last'.id = last.id
                /\ memory' = memory]_vars

C1_Witness ==
    /\ last.op = "ingestContent"
    /\ last.repeat
    /\ last.status = "skipped"
    /\ \E r \in memory : r.id = last.id /\ r.buckets = <<S_A>>

\* C5: a boot-time auto-hydration that finds at least one row in the memory
\* relation leaves the relation unchanged, whatever the backups directory
\* holds.
C5_AutoHydrateSkipsNonEmptyStore ==
    [][(memory # {} /\ last'.op = "autoHydrate") =>
          \A dir \in BackupDirs :
             autoHydrateCore(dir.exists, dir.files, dir.rmOk) => memory' = memory]_vars

\* C29: when boot-time auto-hydration fails (the clearing or a write is
\* rejected, or the newest snapshot is not a list of records or holds a
\* record that cannot be written), the store holds the rows it held before
\* boot.
C29_FailedHydrationKeepsRows ==
    [][last'.op = "autoHydrate" =>
          \A dir \in BackupDirs :
             ( /\ HydrationFails(dir)
               /\ autoHydrateCore(dir.exists, dir.files, dir.rmOk) )
             => memory' = memory]_vars

\* C8 as stated: whenever handleFileChange completes without error for an
\* eligible file whose content hash differs from the hash stored under the
\* file's path-stable id, that row afterwards holds the file's content and
\* hash, whatever other rows the store contains.
C8_ChangedFileReplacesRow ==
    [][(last'.op = "handleFileChange" /\ last'.status # "error") =>
          \A p \in Paths, st \in FileStats, c \in Contents :
             ( /\ Eligible(p, st.kind, st.size, MaxFileBytes)
               /\ HashChanged(p, c)
               /\ handleFileChange(p, st.kind, st.size, c, "none") )
             => \E r \in memory' :
                   r.id = FileId(p) /\ r.content = c /\ r.hash = Md5(c)]_vars

\* C8 amended: the same, provided no row of the file's bucket already holds
\* the new hash (the duplicate check of the handler finds nothing).
C8_ChangedFileReplacesRowUnlessDuplicate ==
    [][(last'.op = "handleFileChange" /\ last'.status # "error") =>
          \A p \in Paths, st \in FileStats, c \in Contents :
             ( /\ Eligible(p, st.kind, st.size, MaxFileBytes)
               /\ HashChanged(p, c)
               /\ RowsByHashBucket(memory, Md5(c), AutoBucket(p)) = {}
               /\ handleFileChange(p, st.kind, st.size, c, "none") )
             => \E r \in memory' :
                   r.id = FileId(p) /\ r.content = c /\ r.hash = Md5(c)]_vars

C8_Witness ==
    /\ last.op = "handleFileChange"
    /\ last.status = "ingested"
    /\ last.changed
    /\ Cardinality(memory) > 1

\* C9: every row of the memory relation has a non-empty bucket list.
C9_BucketsNonEmpty == \A r \in memory : r.buckets # <<>>

(***************************************************************************)
(* String helpers of the search service                                    *)
(***************************************************************************)
Digits == <<"0", "1", "2", "3", "4", "5", "6", "7", "8", "9">>

\* [a-zA-Z0-9]
IsAlnum(c) == c \in Range(UpperCase) \cup Range(LowerCase) \cup Range(Digits)

\* \s
IsSpace(c) == c = " "

\* s.trim()
Trim(s) ==
    LET inked == { i \in 1..Len(s) : ~IsSpace(s[i]) }
    IN  IF inked = {} THEN Empty
        ELSE SubSeq(s, CHOOSE i \in inked : \A j \in inked : i <= j,
                       CHOOSE i \in inked : \A j \in inked : j <= i)

\* s.replace(/[^a-zA-Z0-9\s]/g, ' ')
BlankSymbols(s) ==
    [i \in 1..Len(s) |-> IF IsAlnum(s[i]) \/ IsSpace(s[i]) THEN s[i] ELSE " "]

\* s.replace(/\s+/g, ' ')
RECURSIVE CollapseSpaces(_)
CollapseSpaces(s) ==
    IF Len(s) < 2 THEN s
    ELSE IF IsSpace(s[1]) /\ IsSpace(s[2]) THEN CollapseSpaces(Tail(s))
    ELSE <<s[1]>> \o CollapseSpaces(Tail(s))

\* The sanitizedQuery of runTraditionalSearch.
SanitizeQuery(query) == ToLowerCase(Trim(CollapseSpaces(BlankSymbols(query))))

\* key.toLowerCase().trim()
NormalizeKey(key) == Trim(ToLowerCase(key))

(***************************************************************************)
(* The FTS index memory:content_fts {tokenizer: Simple, filters:           *)
(* [Lowercase]}: a text is cut at every non-alphanumeric character and the *)
(* pieces are lower-cased.  The score bound by bind_score is the number of *)
(* tokens of the content that are tokens of the query; a row matches when  *)
(* that number is positive.  Scores are kept in half points, so that the   *)
(* boosts x0.5 and x1.5 stay integers.                                     *)
(***************************************************************************)
Tokenize(text) ==
    SelectSeq(Split(ToLowerCase(BlankSymbols(text)), " "), LAMBDA t : t # Empty)

Pts(x) == 2 * x

\* score * num / den
Times(score, num, den) == (score * num) \div den

FtsScore(content, q) ==
    LET toks == Tokenize(content)
    IN  Pts(Cardinality({ i \in 1..Len(toks) : toks[i] \in Range(Tokenize(q)) }))

\* The rows of a relation in ascending key order.
RECURSIVE RowsById(_)
RowsById(rows) ==
    IF rows = {} THEN <<>>
    ELSE LET r == CHOOSE x \in rows : \A y \in rows : x = y \/ IdLess(x.id, y.id)
         IN  <<r>> \o RowsById(rows \ {r})

\* arr.sort((a, b) => b.score - a.score): stable, descending by score.
RECURSIVE SortByScore(_)
SortByScore(arr) ==
    IF arr = <<>> THEN <<>>
    ELSE LET n      == Len(arr)
             x      == arr[n]
             sorted == SortByScore(SubSeq(arr, 1, n - 1))
             ahead  == { i \in 1..(n - 1) : sorted[i].score >= x.score }
             k      == Cardinality(ahead)
         IN  SubSeq(sorted, 1, k) \o <<x>> \o SubSeq(sorted, k + 1, n - 1)

\* arr.slice(0, count)
Slice(arr, count) == SubSeq(arr, 1, IF count < Len(arr) THEN count ELSE Len(arr))

\* Math.ceil(a / b) for positive b
CeilDiv(a, b) == (a + b - 1) \div b

\* A SearchResult built from a memory row.
Result(r, score) ==
    [id |-> r.id, content |-> r.content, buckets |-> r.buckets, tags |-> r.tags,
     provenance |-> r.provenance, score |-> score]

(***************************************************************************)
(* Search service: engram layer, FTS anchors, neighbor walk                *)
(***************************************************************************)
\* :put engrams {key, value} with key = md5(normalized key) and value =
\* JSON.stringify(memoryIds); the list is kept as it parses back.
CreateEngramOutcome(eng, key, memoryIds) ==
    LET engramId == Md5(NormalizeKey(key))
    IN  { e \in eng : e.key # engramId } \cup
        { [key |-> engramId, value |-> memoryIds] }

\* lookupByEngram(key): the ids stored under the digest of the key, or [].
LookupByEngram(eng, key) ==
    LET found == { e \in eng : e.key = Md5(NormalizeKey(key)) }
    IN  IF found # {} THEN (CHOOSE e \in found : TRUE).value ELSE <<>>

\* neighborWalk(sourceTags, excludeIds, count)
NeighborWalk(mem, sourceTags, excludeIds, count) ==
    LET uniqueTags == { t \in sourceTags : t # Empty }
        matching   == { r \in mem : Range(r.tags) \cap uniqueTags # {} }
        limited    == Slice(RowsById(matching), count * 2)
        kept       == SelectSeq(limited, LAMBDA r : r.id \notin excludeIds)
        scored     == [i \in 1..Len(kept) |->
                         Result(kept[i],
                                Pts(50 + 10 * Cardinality(
                                      { k \in 1..Len(kept[i].tags) :
                                          kept[i].tags[k] \in uniqueTags })))]
    IN  IF uniqueTags = {} THEN <<>> ELSE Slice(scored, count)

\* runTraditionalSearch(query, buckets): the FTS hits (fewer than k = 500
\* rows are stored), restricted to rows that share a bucket with a non-empty
\* buckets list, in key order.
RunTraditionalSearch(mem, query, buckets) ==
    LET q    == SanitizeQuery(query)
        hits == { r \in mem :
                    /\ FtsScore(r.content, q) > 0
                    /\ buckets # <<>> => Range(r.buckets) \cap Range(buckets) # {} }
        rows == RowsById(hits)
    IN  IF q = Empty THEN <<>>
        ELSE [i \in 1..Len(rows) |-> Result(rows[i], FtsScore(rows[i].content, q))]

\* Provenance boost of an anchor.
BoostAnchor(r, provenance) ==
    IF provenance = "sovereign"
    THEN IF r.provenance = "sovereign"
         THEN [r EXCEPT !.score = Times(r.score, 6, 2)]
         ELSE [r EXCEPT !.score = Times(r.score, 1, 2)]
    ELSE IF provenance = "external"
    THEN IF r.provenance # "sovereign"
         THEN [r EXCEPT !.score = Times(r.score, 3, 2)]
         ELSE r
    ELSE IF r.provenance = "sovereign"
         THEN [r EXCEPT !.score = Times(r.score, 4, 2)]
         ELSE r

\* Provenance boost of a neighbor.
BoostNeighbor(r, provenance) ==
    IF provenance = "sovereign" /\ r.provenance = "sovereign"
    THEN [r EXCEPT !.score = Times(r.score, 3, 2)]
    ELSE r

\* Every r of more pushed, included already or not.
PushNew_All(results, more) == results \o more

\* results.push(r) for every r of more whose id is not included yet.
RECURSIVE PushNew(_, _)
PushNew(results, more) ==
    IF more = <<>> THEN results
    ELSE IF \E i \in 1..Len(results) : results[i].id = Head(more).id
    THEN PushNew(results, Tail(more))
    ELSE PushNew(Append(results, Head(more)), Tail(more))

\* The `results` of executeSearch(query, bucket, buckets, maxChars, _deep,
\* provenance); givenBuckets tells whether `buckets` was passed, and an
\* absent `bucket` is "".
ExecuteSearchResults(mem, eng, query, bucket, givenBuckets, buckets, maxChars, provenance) ==
    LET totalTarget   == CeilDiv(maxChars, 500)
        phase1Target  == CeilDiv(totalTarget * 7, 10)
        phase3Target  == CeilDiv(totalTarget * 3, 10)
        engramResults == LookupByEngram(eng, query)
        engramRows    == RowsById({ r \in mem : r.id \in Range(engramResults) })
        engramHits    == [i \in 1..Len(engramRows) |->
                            Result(engramRows[i], Pts(100))]
        targetBuckets == IF givenBuckets THEN buckets
                         ELSE IF bucket # Empty THEN <<bucket>> ELSE <<>>
        anchorResults == RunTraditionalSearch(mem, query, targetBuckets)
        boosted       == [i \in 1..Len(anchorResults) |->
                            BoostAnchor(anchorResults[i], provenance)]
        topAnchors    == Slice(SortByScore(boosted),
                               IF 10 > phase1Target * 2 THEN 10
                               ELSE phase1Target * 2)
        withAnchors   == PushNew(engramHits, topAnchors)
        harvestedTags == UNION { Range(withAnchors[i].tags) \cup
                                 Range(withAnchors[i].buckets) :
                                   i \in 1..Len(withAnchors) }
        includedIds   == { withAnchors[i].id : i \in 1..Len(withAnchors) }
        neighbors     == IF harvestedTags # {} /\ phase3Target > 0
                         THEN NeighborWalk(mem, harvestedTags, includedIds,
                                           phase3Target)
                         ELSE <<>>
        finalResults  == PushNew(withAnchors,
                                 [i \in 1..Len(neighbors) |->
                                    BoostNeighbor(neighbors[i], provenance)])
    IN  SortByScore(finalResults)

(***************************************************************************)
(* Operations of the search service, and the direct inserts of             *)
(* tests/test_provenance_manual.ts that give rows tags and a provenance    *)
(***************************************************************************)
S_t == <<"t">>

\* Rows the test inserts: two anchors with the same content, a neighbor
\* without the keyword that shares their tag and carries a second tag, the
\* label of their bucket; and two more anchors, one labelled 'internal'
\* that shares the tag and one labelled 'quarantine' without tags.
TestRows ==
    { [name |-> <<"s", "o", "v">>, content |-> <<"a">>, buckets |-> <<S_A>>,
       tags |-> <<S_t>>, provenance |-> "sovereign"],
      [name |-> <<"e", "x", "t">>, content |-> <<"a">>, buckets |-> <<S_A>>,
       tags |-> <<S_t>>, provenance |-> "external"],
      [name |-> <<"n", "e", "i", "g", "h">>, content |-> <<"n">>,
       buckets |-> <<S_B>>, tags |-> <<S_t, S_A>>, provenance |-> "sovereign"],
      [name |-> <<"i", "n", "t">>, content |-> <<"a">>, buckets |-> <<S_B>>,
       tags |-> <<S_t>>, provenance |-> "internal"],
      [name |-> <<"q", "u", "a", "r">>, content |-> <<"a">>, buckets |-> <<S_A>>,
       tags |-> <<>>, provenance |-> "quarantine"] }

\* :insert memory {...} of one test row at Date.now() = now.
InsertMemoryOutcome(mem, now, t) ==
    LET row == [Row(TestId(t.name), now, t.content, <<"T", "e", "s", "t">>,
                    S_text, <<"hash", t.name>>, t.buckets)
                  EXCEPT !.tags = t.tags, !.provenance = t.provenance]
    IN  IF row.id \in Ids(mem) THEN [ok |-> FALSE, memory |-> mem]
        ELSE [ok |-> TRUE, memory |-> mem \cup { row }]

InsertMemory(t) ==
    LET out == InsertMemoryOutcome(memory, clock, t)
    IN  /\ memory' = out.memory
        /\ last' = [op |-> "insert", ok |-> out.ok]
        /\ UNCHANGED <<engrams, backups, clock, inflight, inference>>

\* Lookup keys and id lists handed to createEngram.
EngramKeys == { <<"A">>, <<" ", "a">> }

EngramIdLists ==
    { << TestId(<<"n", "e", "i", "g", "h">>) >>,
      << TestId(<<"q", "u", "a", "r">>), TestId(<<"e", "x", "t">>) >> }

createEngram(key, memoryIds) ==
    /\ engrams' = CreateEngramOutcome(engrams, key, memoryIds)
    /\ last' = [op |-> "createEngram"]
    /\ UNCHANGED <<memory, backups, clock, inflight, inference>>

\* Arguments of executeSearch.
Queries == { <<"a">>, <<"A", "!">>, <<"!">> }

SearchBucketArgs ==
    { [bucket |-> Empty, given |-> FALSE, buckets |-> <<>>],
      [bucket |-> S_A, given |-> FALSE, buckets |-> <<>>],
      [bucket |-> Empty, given |-> TRUE, buckets |-> <<S_A>>],
      [bucket |-> Empty, given |-> TRUE, buckets |-> <<>>] }

MaxCharsArgs == { 500, 2000 }

ProvenanceModes == { "sovereign", "external", "all" }

S_noResults ==
    <<"N", "o", " ", "r", "e", "s", "u", "l", "t", "s", " ",
      "f", "o", "u", "n", "d", ".">>

\* The prompt of composeRollingContext(query, candidates, tokenBudget): the
\* windows of the candidates concatenated in order while the running
\* character count stays within the budget.  A window is the content of
\* its candidate; headers are left out.
RECURSIVE ComposeRollingContext(_, _)
ComposeRollingContext(candidates, budget) ==
    IF candidates = <<>> THEN Empty
    ELSE LET window == Head(candidates).content
         IN  IF Len(window) > budget THEN Empty
             ELSE window \o ComposeRollingContext(Tail(candidates),
                                                  budget - Len(window))

\* The `context` of formatResults(results, maxChars).
FormatResultsContext(results, maxChars) ==
    LET tokenBudget == maxChars \div 4
        prompt      == ComposeRollingContext(results, tokenBudget)
    IN  IF prompt # Empty THEN prompt ELSE S_noResults

executeSearch(query, bucket, givenBuckets, buckets, maxChars, provenance) ==
    LET results == ExecuteSearchResults(memory, engrams, query, bucket,
                                        givenBuckets, buckets, maxChars,
                                        provenance)
    IN  /\ last' = [op |-> "executeSearch", query |-> query,
                    buckets |-> IF givenBuckets THEN buckets
                                ELSE IF bucket # Empty THEN <<bucket>> ELSE <<>>,
                    provenance |-> provenance,
                    results |-> results,
                    context |-> FormatResultsContext(results, maxChars)]
        /\ UNCHANGED <<memory, engrams, backups, clock, inflight, inference>>

\* runTraditionalSearch(query, buckets) with the outcome of its db.run:
\* when the FTS query throws, the catch block logs and returns [].
RunTraditionalSearchOutcome(mem, query, buckets, ftsOk) ==
    IF ftsOk \/ SanitizeQuery(query) = Empty
    THEN RunTraditionalSearch(mem, query, buckets)
    ELSE <<>>

AnchorBucketArgs == { <<>>, <<S_A>>, <<S_B>> }

runTraditionalSearch(query, buckets, ftsOk) ==
    /\ last' = [op |-> "runTraditionalSearch", query |-> query,
                buckets |-> buckets, ftsOk |-> ftsOk,
                results |-> RunTraditionalSearchOutcome(memory, query, buckets,
                                                        ftsOk)]
    /\ UNCHANGED <<memory, engrams, backups, clock, inflight, inference>>

NextSearch ==
    \/ \E t \in TestRows : InsertMemory(t)
    \/ \E key \in EngramKeys, ids \in EngramIdLists : createEngram(key, ids)
    \/ \E q \in Queries, b \in AnchorBucketArgs, ok \in BOOLEAN :
          runTraditionalSearch(q, b, ok)
    \/ \E q \in Queries, b \in SearchBucketArgs, m \in MaxCharsArgs,
          p \in ProvenanceModes :
          executeSearch(q, b.bucket, b.given, b.buckets, m, p)

SpecSearch == Init /\ [][NextSearch]_vars

\* C14: a handleFileChange that changes the store was given a regular file
\* of at most 100 MiB whose extension is in the text allow-list or empty and
\* whose path does not contain 'cozo_memory_snapshot_'; every other file
\* event leaves the store as it was.
C14_WritesOnlyEligibleFiles ==
    [][(last'.op = "handleFileChange" /\ memory' # memory) =>
          \A p \in WatchedPaths, st \in FileStats, c \in Contents, f \in Faults :
             handleFileChange(p, st.kind, st.size, c, f)
             => /\ st.kind = "file"
                /\ st.size <= 100 * 1024 * 1024
                /\ ToLowerCase(ExtName(p)) \in TextExtensions \cup { Empty }
                /\ ~Includes(p, S_snapshot)
                /\ memory' \ memory \subseteq { r \in memory' : r.id = FileId(p) }]_vars

C14_Witness ==
    /\ last.op = "handleFileChange"
    /\ last.status = "ignored"
    /\ \E r \in memory : r.id = FileId(<<"n", ".", "m", "d">>)

\* C15: every file event settles without rejecting, whatever throws while
\* the file is stat-ed, read, checked or written; an event that ends in a
\* caught error leaves the store as it was, so no partial row of the file;
\* and an add or change event that follows another event is processed: for
\* a readable eligible file it ends ingested or skipped as a duplicate.
C15_FileErrorsAreCaught ==
    [][last'.op = "handleFileChange" =>
          /\ last'.status # "rejected"
          /\ last'.status = "error" => memory' = memory
          /\ last.op = "handleFileChange" =>
                \A p \in WatchedPaths, c \in Contents :
                   ( /\ Eligible(p, "file", 1, MaxFileBytes)
                     /\ handleFileChange(p, "file", 1, c, "none") )
                   => last'.status \in { "ingested", "skipped" }]_vars

\* An event that failed after an earlier file was ingested.
C15_Witness ==
    /\ last.op = "handleFileChange"
    /\ last.status = "error"
    /\ memory # {}

\* C24: an add or change event for a file whose content is the one its row
\* was last ingested with leaves the store as it was: no row is added, and
\* the row's content, hash and timestamp are kept.
C24_UnchangedFileLeavesStore ==
    [][(last'.op = "handleFileChange" /\ memory' # memory) =>
          \A p \in WatchedPaths, st \in FileStats, c \in Contents, f \in Faults :
             handleFileChange(p, st.kind, st.size, c, f) => ~HashKept(p, c)]_vars

\* A further event for an unchanged file was handled as a duplicate while
\* another file is stored too.
C24_Witness ==
    /\ last.op = "handleFileChange"
    /\ last.status = "skipped"
    /\ last.kept
    /\ Cardinality(memory) = 2

\* C17: a dream cycle adds and removes no memory, changes no field but
\* buckets, and changes the buckets only of memories whose buckets were
\* empty or exactly ['core'] before the cycle.
C17_DreamChangesOnlyUntaggedBuckets ==
    [][last'.op = "dream" =>
          /\ Ids(memory') = Ids(memory)
          /\ \A r \in memory :
                \E n \in memory' :
                   /\ n.id = r.id
                   /\ [n EXCEPT !.buckets = r.buckets] = r
                   /\ (r.buckets # <<>> /\ r.buckets # <<S_core>>) => n = r]_vars

\* A cycle that retagged a memory while another one carried a label.
C17_Witness ==
    /\ last.op = "dream"
    /\ last.updated > 0
    /\ \E r \in memory : r.buckets = <<S_B>>
    /\ \E r \in memory : r.buckets = <<S_A>>

\* C13: when hydrate runs on a snapshot one record of which cannot be
\* written, every other record of the snapshot is in the store afterwards.
C13_OtherRecordsStillWritten ==
    [][last'.op = "hydrate" =>
          \A file \in SnapshotFiles :
             ( /\ file.isArray
               /\ \E j \in 1..Len(file.records) : ~Storable(file.records[j])
               /\ hydrate(file) )
             => \A i \in 1..Len(file.records) :
                   Storable(file.records[i])
                   => \E r \in memory' : r.id = file.records[i].id]_vars

(***************************************************************************)
(* Properties of the search service                                        *)
(***************************************************************************)
\* C2: no result of a search restricted to a non-empty bucket list has a
\* bucket list disjoint from it, whichever path contributed the result.
C2_ResultsShareABucket ==
    (last.op = "executeSearch" /\ last.buckets # <<>>) =>
        \A i \in 1..Len(last.results) :
            Range(last.results[i].buckets) \cap Range(last.buckets) # {}

\* A record counts as internal under either label the code uses for it:
\* 'internal' (semantic search) or 'sovereign' (executeSearch).
IsInternal(r) == r.provenance \in { "internal", "sovereign" }

IsExternal(r) == r.provenance = "external"

\* C6: in the results of executeSearch, of an internal and an external
\* record whose contents have the same positive FTS score for the query,
\* the internal one comes first in 'sovereign' mode and the external one
\* comes first in 'external' mode.
C6_ProvenanceOrdersTies ==
    last.op = "executeSearch" =>
        \A i, j \in 1..Len(last.results) :
            LET a == last.results[i]
                b == last.results[j]
                q == SanitizeQuery(last.query)
            IN  ( /\ IsInternal(a) /\ IsExternal(b)
                  /\ FtsScore(a.content, q) > 0
                  /\ FtsScore(a.content, q) = FtsScore(b.content, q) )
                => /\ last.provenance = "sovereign" => i < j
                   /\ last.provenance = "external" => j < i

\* C7: no record whose provenance is 'quarantine' is among the results of
\* executeSearch, in any provenance mode.
C7_NoQuarantineInResults ==
    last.op = "executeSearch" =>
        \A i \in 1..Len(last.results) : last.results[i].provenance # "quarantine"

\* A query matches no record when no content has a token of the sanitized
\* query and the engram of the query names no stored row.
MatchesNothing(mem, eng, query) ==
    /\ \A r \in mem : FtsScore(r.content, SanitizeQuery(query)) = 0
    /\ \A r \in mem : r.id \notin Range(LookupByEngram(eng, query))

\* C11: an executeSearch whose query matches no record of the store (a
\* query that sanitizes to the empty string included) returns results = []
\* and a context equal to the empty string.
C11_NoMatchEmptyContext ==
    (last.op = "executeSearch" /\ MatchesNothing(memory, engrams, last.query))
        => last.results = <<>> /\ last.context = Empty

\* A record is in the requested buckets when the list is empty or shares a
\* label with the record's; it contains the query when its content or its
\* source does, letter case aside.
InRequestedBuckets(r, buckets) ==
    buckets # <<>> => Range(r.buckets) \cap Range(buckets) # {}

ContainsQuery(r, query) ==
    \/ Includes(ToLowerCase(r.content), ToLowerCase(query))
    \/ Includes(ToLowerCase(r.source), ToLowerCase(query))

\* C12: when the FTS query of a search fails, the search still returns every
\* record of the requested buckets whose content or source contains the
\* query, and returns no record outside those buckets.
C12_FtsFailureFallsBackToScan ==
    (last.op = "runTraditionalSearch" /\ ~last.ftsOk) =>
        /\ \A r \in memory :
              (InRequestedBuckets(r, last.buckets) /\ ContainsQuery(r, last.query))
              => \E i \in 1..Len(last.results) : last.results[i].id = r.id
        /\ \A i \in 1..Len(last.results) :
              InRequestedBuckets(last.results[i], last.buckets)

\* C23: when some memory does not match the query text but shares a tag
\* with an anchor the FTS phase returns, an executeSearch in provenance mode
\* 'all' returns at least one such memory, however many anchors carry the
\* tag.  (The neighbor budget ceil(ceil(maxChars / 500) * 0.3) is at least
\* 1 for every maxChars >= 1.)
C23_TagNeighborReturned ==
    (last.op = "executeSearch" /\ last.provenance = "all") =>
        LET q       == SanitizeQuery(last.query)
            anchors == Range(RunTraditionalSearch(memory, last.query,
                                                  last.buckets))
            hidden  == { r \in memory :
                           /\ FtsScore(r.content, q) = 0
                           /\ \E a \in anchors :
                                 Range(r.tags) \cap Range(a.tags) # {} }
        IN  hidden # {} =>
               \E i \in 1..Len(last.results) :
                  \E r \in hidden : last.results[i].id = r.id

\* C25: neighborWalk returns at most `count` memories, none of them
\* excluded, each scored 50 + 10 * (number of its tags among the source
\* tags), and no memory that shares a source tag, is not excluded and was
\* left out has more tags among the source tags than one that is returned.
C25_WalkKeepsTopByScore ==
    \A tags \in SUBSET { S_t, S_A }, exclude \in SUBSET Ids(memory),
       count \in 1..2 :
        LET walk     == NeighborWalk(memory, tags, exclude, count)
            common(r) == Cardinality({ k \in 1..Len(r.tags) : r.tags[k] \in tags })
            returned == { walk[i].id : i \in 1..Len(walk) }
            eligible == { r \in memory : common(r) > 0 /\ r.id \notin exclude }
        IN  /\ Len(walk) <= count
            /\ \A i \in 1..Len(walk) :
                  /\ walk[i].id \notin exclude
                  /\ walk[i].score = Pts(50 + 10 * common(walk[i]))
            /\ \A r \in eligible :
                  r.id \notin returned =>
                     \A i \in 1..Len(walk) :
                        Pts(50 + 10 * common(r)) <= walk[i].score

\* C26: the results of executeSearch hold no id twice, also when a memory
\* is reached by the engram lookup, by the FTS phase and by the tag walk.
C26_NoIdTwice ==
    last.op = "executeSearch" =>
        \A i, j \in 1..Len(last.results) :
            last.results[i].id = last.results[j].id => i = j

\* A search whose engram names a stored memory that also matches the query
\* and carries a tag harvested from another result.
C26_Witness ==
    /\ last.op = "executeSearch"
    /\ Len(last.results) >= 2
    /\ \E r \in memory :
          /\ r.id \in Range(LookupByEngram(engrams, last.query))
          /\ FtsScore(r.content, SanitizeQuery(last.query)) > 0
          /\ \E i, j \in 1..Len(last.results) :
                /\ last.results[i].id = r.id
                /\ last.results[j].id # r.id
                /\ Range(r.tags) \cap Range(last.results[j].tags) # {}

\* The timestamp of the memory a result was built from.
TimestampOf(mem, id) == (CHOOSE r \in mem : r.id = id).timestamp

\* C19: the results of executeSearch on the current store are ordered by
\* score descending, and results of equal score by timestamp descending, so
\* that the sequence does not depend on the order the store returns rows in.
C19_TiesByTimestampDescending ==
    \A q \in Contents, p \in ProvenanceModes :
        LET res == ExecuteSearchResults(memory, engrams, q, Empty, FALSE, <<>>,
                                        2000, p)
        IN  \A i, j \in 1..Len(res) :
               i < j =>
                  \/ res[i].score > res[j].score
                  \/ /\ res[i].score = res[j].score
                     /\ TimestampOf(memory, res[i].id) >=
                           TimestampOf(memory, res[j].id)

LegacyBucketArgs ==
    { [given |-> FALSE, bucket |-> Empty] } \cup
    { [given |-> TRUE, bucket |-> b] : b \in { Empty, S_A, S_B } }

\* POST /v1/ingest run at Date.now() = now.
LegacyIngestOutcome(mem, now, content, filename, source, type, bucket) ==
    IF content = Empty
    THEN [status |-> "error", id |-> DocId(0), memory |-> mem]
    ELSE LET hash  == Md5(content)
             found == RowsByHashBucket(mem, hash, bucket)
         IN  IF found # {}
             THEN [status |-> "skipped", id |-> FirstId(found), memory |-> mem]
             ELSE LET id  == DocId(now)
                      row == Row(id, now, content,
                                 OrElse(source, OrElse(filename, S_unknown)),
                                 type, hash, <<bucket>>)
                  IN  IF id \in Ids(mem)
                      THEN [status |-> "error", id |-> id, memory |-> mem]
                      ELSE [status |-> "success", id |-> id,
                            memory |-> mem \cup { row }]

legacyIngest(content, filename, source, given, bucketArg) ==
    LET bucket == IF given THEN bucketArg ELSE S_core
        now    == clock + 1
        out    == LegacyIngestOutcome(memory, now, content, filename, source,
                                      S_text, bucket)
    IN  /\ out.status = "success" => clock < MaxClock
        /\ memory' = out.memory
        /\ clock' = IF out.status = "success" THEN now ELSE clock
        /\ last' = [op |-> "legacyIngest", status |-> out.status, id |-> out.id]
        /\ UNCHANGED <<engrams, backups, inflight, inference>>

\* The records GET /v1/backup dumps, in key order.  js-yaml writes and
\* reads back strings and integers unchanged, so a snapshot file is kept as
\* the document it parses to.
Eject(mem) ==
    LET rows == RowsById(mem)
    IN  [isArray |-> TRUE,
         records |-> [i \in 1..Len(rows) |->
                        [id |-> rows[i].id, timestamp |-> rows[i].timestamp,
                         content |-> rows[i].content, source |-> rows[i].source,
                         type |-> rows[i].type, hash |-> rows[i].hash,
                         bucket |-> rows[i].buckets]]]

\* GET /v1/backup: the snapshot is written to the backups directory, named
\* by the time of the export.
backup ==
    /\ Len(backups) < MaxBackups
    /\ backups' = Append(backups, Eject(memory))
    /\ last' = [op |-> "backup", exported |-> Cardinality(memory)]
    /\ UNCHANGED <<memory, engrams, clock, inflight, inference>>

\* The 'engine/context.db' folder is deleted while the engine is down.
deleteContextDb ==
    /\ memory' = {}
    /\ last' = [op |-> "deleteContextDb"]
    /\ UNCHANGED <<engrams, backups, clock, inflight, inference>>

\* autoHydrate of index.js: skipped when the relation holds a row; files
\* holds the snapshots of the backups directory, newest last.
LegacyAutoHydrateOutcome(mem, dirExists, files) ==
    IF ~dirExists THEN mem
    ELSE IF Cardinality(mem) > 0 THEN mem
    ELSE IF Len(files) = 0 THEN mem
    ELSE HydrateOutcome(mem, files[Len(files)])

legacyAutoHydrate(dirExists) ==
    /\ memory' = LegacyAutoHydrateOutcome(memory, dirExists, backups)
    /\ last' = [op |-> "legacyAutoHydrate",
                loaded |-> dirExists /\ memory = {} /\ Len(backups) > 0]
    /\ UNCHANGED <<engrams, backups, clock, inflight, inference>>

\* list.sort() of distinct strings: ascending by code units.
RECURSIVE SortStrings(_)
SortStrings(set) ==
    IF set = {} THEN <<>>
    ELSE LET least == CHOOSE x \in set : \A y \in set : x = y \/ StrLess(x, y)
         IN  <<least>> \o SortStrings(set \ { least })

\* GET /v1/buckets: [...new Set(rows.map(row => row[0]))].sort(), and
\* ['core'] when that list is empty.  For a row with a list of buckets the
\* labels are the elements of the list.
BucketsEndpoint(mem) ==
    LET buckets == SortStrings(UNION { Range(r.buckets) : r \in mem })
    IN  IF Len(buckets) = 0 THEN <<S_core>> ELSE buckets

getBuckets ==
    /\ last' = [op |-> "getBuckets", result |-> BucketsEndpoint(memory)]
    /\ UNCHANGED <<memory, engrams, backups, clock, inflight, inference>>

NextLegacy ==
    \/ \E c \in Contents \cup {Empty}, a \in SourceArgs, b \in LegacyBucketArgs :
          legacyIngest(c, a.filename, a.source, b.given, b.bucket)
    \/ backup
    \/ deleteContextDb
    \/ \E dirExists \in BOOLEAN : legacyAutoHydrate(dirExists)

SpecLegacy == Init /\ [][NextLegacy]_vars

\* Ingests and bucket listings, taken alone.
NextBuckets ==
    \/ \E c \in Contents \cup {Empty}, a \in SourceArgs, b \in BucketArgs :
          ingestContent(c, a.filename, a.source, b.given, b.buckets)
    \/ getBuckets

SpecBuckets == Init /\ [][NextBuckets]_vars

\* C4: ejecting the store with the backup operation and hydrating the
\* snapshot into an empty store gives back exactly the rows of the store,
\* equal on every field.
C4_SnapshotRoundTrip == HydrateOutcome({}, Eject(memory)) = memory

\* The labels of the bucket lists stored so far.
Labels(mem) == UNION { Range(r.buckets) : r \in mem }

\* res lists exactly the labels, each once, in ascending order; ['core']
\* stands for no label at all.
ListsSorted(res, labels) ==
    IF labels = {} THEN res = <<S_core>>
    ELSE /\ Range(res) = labels
         /\ \A i, j \in 1..Len(res) : i < j => StrLess(res[i], res[j])

MaxWindows == 2
MaxBudget == 6

\* Contents of inflated windows: "", "a", "abcd".
WindowContents == { Empty, <<"a">>, <<"a", "b", "c", "d">> }

RECURSIVE SeqsUpTo(_, _)
SeqsUpTo(S, n) ==
    IF n = 0 THEN { <<>> }
    ELSE SeqsUpTo(S, n - 1) \cup
         { Append(w, x) : w \in { v \in SeqsUpTo(S, n - 1) : Len(v) = n - 1 },
                          x \in S }

\* '...'
S_dots == <<".", ".", ".">>

\* The loop over inflatedResults, from window k on, with totalChars and
\* finalResults as they stand.
RECURSIVE BudgetLoop(_, _, _, _, _)
BudgetLoop(inflatedResults, k, maxChars, totalChars, finalResults) ==
    IF k > Len(inflatedResults) THEN finalResults
    ELSE LET contentToUse    == inflatedResults[k]
             remainingBudget == maxChars - totalChars
             finalContent    == IF Len(contentToUse) > remainingBudget
                                THEN SubSeq(contentToUse, 1, remainingBudget)
                                       \o S_dots
                                ELSE contentToUse
         IN  IF Len(contentToUse) = 0
             THEN BudgetLoop(inflatedResults, k + 1, maxChars, totalChars,
                             finalResults)
             ELSE IF remainingBudget <= 0 THEN finalResults
             ELSE BudgetLoop(inflatedResults, k + 1, maxChars,
                             totalChars + Len(finalContent),
                             Append(finalResults, finalContent))

FinalBudgetingPass(inflatedResults, maxChars) ==
    BudgetLoop(inflatedResults, 1, maxChars, 0, <<>>)

InitBudget ==
    /\ memory = {}
    /\ engrams = {}
    /\ backups = <<>>
    /\ clock = 0
    /\ inflight = {}
    /\ inference = NoInference
    /\ \E ws \in SeqsUpTo(WindowContents, MaxWindows), m \in 1..MaxBudget :
          last = [op |-> "inflated", windows |-> ws, maxChars |-> m]

budgetPass ==
    /\ last.op = "inflated"
    /\ last' = [op |-> "budgeted", windows |-> last.windows,
                maxChars |-> last.maxChars,
                results |-> FinalBudgetingPass(last.windows, last.maxChars)]
    /\ UNCHANGED <<memory, engrams, backups, clock, inflight, inference>>

NextBudget == budgetPass

SpecBudget == InitBudget /\ [][NextBudget]_vars

RECURSIVE SumLen(_)
SumLen(contents) ==
    IF contents = <<>> THEN 0 ELSE Len(Head(contents)) + SumLen(Tail(contents))

\* C3: the content lengths of the results the final budgeting pass emits
\* sum to at most max_chars, the '...' marker included.
C3_EmittedWithinBudget ==
    last.op = "budgeted" => SumLen(last.results) <= last.maxChars

(***************************************************************************)
(* services/inference.js  chat, and the Scribe session state it is meant   *)
(* to read (services/scribe.js, Standard 041)                              *)
(***************************************************************************)
\* The special id of the session state record.
SessionStateId == <<"session_state", 0>>

\* scribe.getState(): the stored summary, or '' when there is none.
GetState(mem) ==
    LET found == { r \in mem : r.id = SessionStateId }
    IN  IF found = {} THEN Empty ELSE (CHOOSE r \in found : TRUE).content

\* scribe.updateState(history): the summary the generator produced replaces
\* the stored one; a generator error leaves the previous state.
UpdateStateOutcome(mem, now, summary, generatorOk) ==
    IF ~generatorOk THEN mem
    ELSE Put(mem, Row(SessionStateId, now, summary, <<"s", "c", "r", "i", "b", "e">>,
                      <<"s", "t", "a", "t", "e">>, Md5(summary), <<>>))

\* scribe.clearState()
ClearStateOutcome(mem) == { r \in mem : r.id # SessionStateId }

updateState(summary, generatorOk) ==
    LET now == clock + 1
    IN  /\ generatorOk => clock < MaxClock
        /\ memory' = UpdateStateOutcome(memory, now, summary, generatorOk)
        /\ clock' = IF generatorOk THEN now ELSE clock
        /\ last' = [op |-> "updateState", ok |-> generatorOk]
        /\ UNCHANGED <<engrams, backups, inflight, inference>>

clearState ==
    /\ memory' = ClearStateOutcome(memory)
    /\ last' = [op |-> "clearState"]
    /\ UNCHANGED <<engrams, backups, clock, inflight, inference>>

\* The conversations handed to chat: one or two messages, the last one the
\* user's.
UserMessages == { <<"a">>, <<"b">>, <<"b", " ", "a">> }

ChatMessages ==
    { <<m>> : m \in UserMessages } \cup
    { <<m, n>> : m \in UserMessages, n \in UserMessages }

\* generationOptions.temperature in tenths; NoOption when it is absent.
NoOption == -1

TemperatureArgs == { NoOption, 0, 10 }

\* parseFloat(generationOptions.temperature) || 0.7, in tenths: NaN and 0
\* are falsy.
Temperature(t) == IF t = NoOption \/ t = 0 THEN 7 ELSE t

\* The prompt chat sends to the session: the content of the last message.
ChatPrompt(messages) == messages[Len(messages)]

chat(messages, temperature) ==
    /\ last' = [op |-> "chat", messages |-> messages,
                prompt |-> ChatPrompt(messages),
                temperature |-> Temperature(temperature)]
    /\ UNCHANGED <<memory, engrams, backups, clock, inflight, inference>>

NextChat ==
    \/ \E summary \in Contents, ok \in BOOLEAN : updateState(summary, ok)
    \/ clearState
    \/ \E ms \in ChatMessages, t \in TemperatureArgs : chat(ms, t)

SpecChat == Init /\ [][NextChat]_vars

\* Context weaving of Standard 041: the state between its delimiters, an
\* empty line, the user message.
S_nl == <<"\n">>

S_open ==
    <<"[", "S", "E", "S", "S", "I", "O", "N", " ", "S", "T", "A", "T", "E", "]">>

S_close ==
    <<"[", "/", "S", "E", "S", "S", "I", "O", "N", " ", "S", "T", "A", "T", "E", "]">>

Weave(state, message) ==
    S_open \o S_nl \o state \o S_nl \o S_close \o S_nl \o S_nl \o message

\* C16: the prompt of a chat() request made while a session state is stored
\* is that state, wrapped in [SESSION STATE] ... [/SESSION STATE], followed
\* by the user message.
C16_ChatWeavesSessionState ==
    (last.op = "chat" /\ GetState(memory) # Empty) =>
        last.prompt = Weave(GetState(memory), last.messages[Len(last.messages)])

(***************************************************************************)
(* The file watcher with its awaits: two add/change events whose handlers  *)
(* run concurrently.  A handler runs without interruption up to each       *)
(* `await db.run`, so its steps are the deduplication check and the :put;  *)
(* inflight holds the handlers that have read and hashed their file and    *)
(* have not returned yet.                                                  *)
(***************************************************************************)
\* "A/x.md", "A/r" (both of bucket 'A') and "n.md".
RacePaths ==
    { <<"A", "/", "x", ".", "m", "d">>, <<"A", "/", "r">>, <<"n", ".", "m", "d">> }

\* Two readable text files at different paths.
FilePairs ==
    { files \in SUBSET [path : RacePaths, content : Contents] :
        /\ Cardinality(files) = 2
        /\ \A f \in files, g \in files : f.path = g.path => f = g }

\* Both events arrive; each handler stats, reads and hashes its file and
\* sends its deduplication check.
launch(files) ==
    /\ inflight = {}
    /\ inference = NoInference
    /\ inflight' = { [path |-> f.path, content |-> f.content, pc |-> "check",
                      now |-> 0] : f \in files }
    /\ last' = [op |-> "launch", base |-> memory, files |-> files]
    /\ UNCHANGED <<memory, engrams, backups, clock, inference>>

\* The check of handler h is answered: the handler returns when a row of
\* its hash and bucket exists, and builds the :put with Date.now() when
\* none does.
checkStep(h) ==
    /\ h \in inflight
    /\ h.pc = "check"
    /\ IF RowsByHashBucket(memory, Md5(h.content), AutoBucket(h.path)) # {}
       THEN /\ inflight' = inflight \ { h }
            /\ clock' = clock
       ELSE /\ clock < MaxClock
            /\ inflight' = (inflight \ { h }) \cup
                              { [h EXCEPT !.pc = "put", !.now = clock + 1] }
            /\ clock' = clock + 1
    /\ UNCHANGED <<memory, engrams, backups, last, inference>>

\* The :put of handler h is executed.
putStep(h) ==
    /\ h \in inflight
    /\ h.pc = "put"
    /\ memory' = Put(memory, Row(FileId(h.path), h.now, h.content, h.path,
                                 OrElse(ToLowerCase(ExtName(h.path)), S_text),
                                 Md5(h.content), <<AutoBucket(h.path)>>))
    /\ inflight' = inflight \ { h }
    /\ UNCHANGED <<engrams, backups, clock, last, inference>>

\* The handlers that can be in flight.
Handlers ==
    [path : RacePaths, content : Contents, pc : { "check", "put" },
     now : 0..MaxClock]

NextRace ==
    \/ \E files \in FilePairs : launch(files)
    \/ \E h \in Handlers : checkStep(h)
    \/ \E h \in Handlers : putStep(h)

SpecRace == Init /\ [][NextRace]_vars

\* The store after handling file a and then file b one after the other.
Sequential(mem, a, b) ==
    LET first == HandleFileChangeOutcome(mem, 1, a.path, "file", 1, a.content,
                                         MaxFileBytes).memory
    IN  HandleFileChangeOutcome(first, 2, b.path, "file", 1, b.content,
                                MaxFileBytes).memory

\* A store with its Date.now() readings set aside.
NoTimestamps(mem) == { [r EXCEPT !.timestamp = 0] : r \in mem }

\* C18: when the handlers of two files at different paths have run
\* concurrently and both have returned, the store holds, timestamps aside,
\* what handling the two files one after the other leaves, in one order or
\* the other.
C18_ConcurrentEqualsSequential ==
    (last.op = "launch" /\ inflight = {}) =>
        \E a \in last.files, b \in last.files :
            /\ a # b
            /\ NoTimestamps(memory) = NoTimestamps(Sequential(last.base, a, b))

\* ------------------------------------------------------------------
\* Dynamic Density sizing of the Context Inflator
\* (specs/standards/085-context-inflation.md, section 3).
\* ------------------------------------------------------------------

\* The largest number of search hits handed to the inflator.
MaxHits == 4

\* The total budgets go from 50 to 50 * MaxBudgetSteps characters.
MaxBudgetSteps == 14

MIN_VIABLE_SIZE == 150

MIN_PADDING == 50

MAX_PADDING == 500

MIN_WINDOW_CAP == 200

TotalBudgets == { 50 * k : k \in 1..MaxBudgetSteps }

\* "clamped to [lo, hi]".
Clamp(x, lo, hi) == IF x < lo THEN lo ELSE IF x > hi THEN hi ELSE x

\* SafeCount with the quotient rounded up instead of cut by slice().
SafeCount_RoundUp(totalBudget) ==
    (totalBudget + MIN_VIABLE_SIZE - 1) \div MIN_VIABLE_SIZE

\* SafeCount = TotalBudget / MinViableSize, as Results.slice(0, SafeCount)
\* uses it: slice() cuts the quotient to its integer part.
SafeCount(totalBudget) == totalBudget \div MIN_VIABLE_SIZE

\* The sizing for resultsCount hits and a total budget: the number of
\* results kept, TargetWindowSize and TargetPadding.
DynamicDensity(resultsCount, totalBudget) ==
    LET squeeze == resultsCount * MIN_VIABLE_SIZE > totalBudget
        kept == IF squeeze
                THEN IF SafeCount(totalBudget) < resultsCount
                     THEN SafeCount(totalBudget) ELSE resultsCount
                ELSE resultsCount
        targetWindowSize == IF squeeze THEN MIN_VIABLE_SIZE
                            ELSE totalBudget \div resultsCount
    IN  [ squeezed |-> squeeze,
          kept |-> kept,
          targetWindowSize |-> targetWindowSize,
          targetPadding |-> Clamp(targetWindowSize \div 2,
                                  MIN_PADDING, MAX_PADDING) ]

\* A search has produced resultsCount hits for a total budget.
InitDensity ==
    /\ memory = {}
    /\ engrams = {}
    /\ backups = <<>>
    /\ clock = 0
    /\ inflight = {}
    /\ inference = NoInference
    /\ \E n \in 1..MaxHits, b \in TotalBudgets :
          last = [ op |-> "hits", resultsCount |-> n, totalBudget |-> b ]

\* ContextInflator.inflate(results, totalBudget): the kept results are
\* sized, and merges of them are merged with a neighbour of the same
\* compound, so that kept - merges windows are emitted.
inflate(merges) ==
    /\ last.op = "hits"
    /\ LET d == DynamicDensity(last.resultsCount, last.totalBudget)
       IN  /\ merges < d.kept \/ merges = 0
           /\ last' = [ op |-> "inflate",
                        resultsCount |-> last.resultsCount,
                        totalBudget |-> last.totalBudget,
                        squeezed |-> d.squeezed,
                        windows |-> d.kept - merges,
                        targetWindowSize |-> d.targetWindowSize,
                        targetPadding |-> d.targetPadding ]
    /\ UNCHANGED <<memory, engrams, backups, clock, inflight, inference>>

NextDensity == \E merges \in 0..(MaxHits - 1) : inflate(merges)

SpecDensity == InitDensity /\ [][NextDensity]_vars

\* C21: for every hit count n >= 1 and total budget B, every emitted
\* window is sized at least MIN_WINDOW_CAP (200), except when
\* n * MIN_VIABLE_SIZE > B truncated the result list, in which case the
\* windows are sized exactly MIN_VIABLE_SIZE (150).
C21_WindowsAtLeastMinWindowCap ==
    (last.op = "inflate" /\ last.windows > 0) =>
        IF last.resultsCount * MIN_VIABLE_SIZE > last.totalBudget
        THEN last.targetWindowSize = MIN_VIABLE_SIZE
        ELSE last.targetWindowSize >= MIN_WINDOW_CAP

\* C22: with a total budget of MIN_WINDOW_CAP (200 characters) the
\* inflator emits at most one window, for any number of hits n >= 1.
C22_MinWindowCapBudgetOneWindow ==
    (last.op = "inflate" /\ last.totalBudget = MIN_WINDOW_CAP) =>
        last.windows <= 1

\* Several hits were inflated under a budget of MIN_WINDOW_CAP and one
\* window came out.
C22_Witness ==
    /\ last.op = "inflate"
    /\ last.totalBudget = MIN_WINDOW_CAP
    /\ last.resultsCount >= 2
    /\ last.squeezed
    /\ last.windows = 1

\* ------------------------------------------------------------------
\* Concurrent ingestContent calls (services/ingest.js).  A call awaits
\* its hash lookup and then its :insert, so the steps of two calls can
\* interleave at the two awaits.
\* ------------------------------------------------------------------

\* Two calls made before either has been answered.
IngestCallPairs ==
    { { [caller |-> 1, content |-> c1], [caller |-> 2, content |-> c2] } :
        c1 \in Contents, c2 \in Contents }

\* ingestContent is called twice: each call hashes its content and sends
\* its lookup.
callIngest(calls) ==
    /\ inflight = {}
    /\ inference = NoInference
    /\ inflight' = { [caller |-> k.caller, content |-> k.content,
                      pc |-> "check", now |-> 0] : k \in calls }
    /\ last' = [op |-> "callIngest"]
    /\ UNCHANGED <<memory, engrams, backups, clock, inference>>

\* The lookup of call h is answered: the call returns 'skipped' when a
\* row of its hash exists, and builds its id and timestamp from Date.now()
\* and sends the :insert when none does.
ingestCheck(h) ==
    /\ h \in inflight
    /\ h.pc = "check"
    /\ IF RowsByHash(memory, Md5(h.content)) # {}
       THEN /\ inflight' = inflight \ { h }
            /\ clock' = clock
            /\ last' = [op |-> "ingestCheck", status |-> "skipped"]
       ELSE /\ clock < MaxClock
            /\ inflight' = (inflight \ { h }) \cup
                              { [h EXCEPT !.pc = "insert", !.now = clock + 1] }
            /\ clock' = clock + 1
            /\ last' = [op |-> "ingestCheck", status |-> "inserting"]
    /\ UNCHANGED <<memory, engrams, backups, inference>>

\* The :insert of call h is executed.
ingestInsert(h) ==
    /\ h \in inflight
    /\ h.pc = "insert"
    /\ memory' = memory \cup
                    { Row(DocId(h.now), h.now, h.content, S_unknown, S_text,
                          Md5(h.content), <<S_core>>) }
    /\ inflight' = inflight \ { h }
    /\ last' = [op |-> "ingestInsert", status |-> "success"]
    /\ UNCHANGED <<engrams, backups, clock, inference>>

\* The calls that can be in flight.
IngestCalls ==
    [caller : { 1, 2 }, content : Contents, pc : { "check", "insert" },
     now : 0..(MaxClock + 1)]

NextIngestRace ==
    \/ \E calls \in IngestCallPairs : callIngest(calls)
    \/ \E h \in IngestCalls : ingestCheck(h)
    \/ \E h \in IngestCalls : ingestInsert(h)

SpecIngestRace == Init /\ [][NextIngestRace]_vars

\* C27: after any interleaving of concurrent ingestContent calls the
\* memory relation holds at most one row per content hash.
C27_OneRowPerHash ==
    inflight = {} =>
        \A r \in memory, t \in memory : r.hash = t.hash => r = t

\* ------------------------------------------------------------------
\* services/inference.js  loadModel: calls in flight over the globals
\* model, context, session and currentModelName.
\* ------------------------------------------------------------------

\* Where a call throws: nowhere, at the existsSync test, in l.loadModel
\* or in model.createContext.
LoadFaults == { "none", "missing", "load", "context" }

\* The calls that can be in flight: the awaited step of each is
\* getLlamaInstance, l.loadModel, model.createContext or the import of
\* LlamaChatSession.
LoadCalls ==
    [modelName : { S_A, S_B }, fault : LoadFaults,
     pc : { "llama", "load", "context", "import" }]

\* loadModel(modelName) is called while at most one other call is in
\* flight: it answers 'ready' when the model is the current one and a
\* session exists, and awaits getLlamaInstance() otherwise.
loadModel(modelName, fault) ==
    /\ Cardinality(inflight) < 2
    /\ \A h \in inflight : h.modelName # modelName
    /\ IF modelName = inference.currentModelName /\ inference.session # <<>>
       THEN /\ inflight' = inflight
            /\ last' = [op |-> "loadModel", status |-> "ready"]
       ELSE /\ inflight' = inflight \cup
                  { [modelName |-> modelName, fault |-> fault, pc |-> "llama"] }
            /\ last' = [op |-> "loadModel", status |-> "loading"]
    /\ UNCHANGED <<memory, engrams, backups, clock, inference>>

\* The call h resumes after its await, runs to its next await, to its
\* return or to its throw.
loadModelResume(h) ==
    /\ h \in inflight
    /\ LET threw(inf) ==
              /\ inference' = inf
              /\ inflight' = inflight \ { h }
              /\ last' = [op |-> "loadModel", status |-> "threw"]
           awaits(inf, pc) ==
              /\ inference' = inf
              /\ inflight' = (inflight \ { h }) \cup { [h EXCEPT !.pc = pc] }
              /\ last' = [op |-> "loadModel", status |-> "loading"]
       IN  CASE h.pc = "llama" ->
                  LET cleaned == [inference EXCEPT !.session = <<>>,
                                     !.context = <<>>, !.model = <<>>]
                  IN  IF h.fault = "missing" THEN threw(cleaned)
                      ELSE awaits(cleaned, "load")
             [] h.pc = "load" ->
                  IF h.fault = "load" THEN threw(inference)
                  ELSE awaits([inference EXCEPT !.model = h.modelName],
                              "context")
             [] h.pc = "context" ->
                  IF h.fault = "context" THEN threw(inference)
                  ELSE awaits([inference EXCEPT !.context = h.modelName],
                              "import")
             [] h.pc = "import" ->
                  IF inference.context = <<>> THEN threw(inference)
                  ELSE /\ inference' =
                             [inference EXCEPT !.session = inference.context,
                                               !.currentModelName = h.modelName]
                       /\ inflight' = inflight \ { h }
                       /\ last' = [op |-> "loadModel", status |-> "success"]
    /\ UNCHANGED <<memory, engrams, backups, clock>>

NextInference ==
    \/ \E m \in { S_A, S_B }, f \in LoadFaults : loadModel(m, f)
    \/ \E h \in LoadCalls : loadModelResume(h)

SpecInference == Init /\ [][NextInference]_vars

\* C28: after any interleaving of loadModel calls, a session that is not
\* null was built on a context of the model named by currentModelName, and
\* a loadModel call that throws leaves the session null.
C28_SessionOfCurrentModel ==
    /\ inference.session # <<>> =>
          inference.session = inference.currentModelName
    /\ (last.op = "loadModel" /\ last.status = "threw") =>
          inference.session = <<>>

\* ------------------------------------------------------------------
\* boot() of the engine (index.js) with init() of core/db: schema
\* initialization, the delay, auto-hydration, then setupFileWatcher() and
\* app.listen().  The calls in flight are boot(), the init() it awaits,
\* and, once started, the watcher and the listener.
\* ------------------------------------------------------------------
BootCall == [call |-> "boot"]

WatcherHandle == [call |-> "watcher"]

ListenerHandle == [call |-> "listener"]

\* The init() call at one of its awaits, with the state of BACKUPS_DIR.
InitCalls ==
    [call : { "init" }, pc : { "initializeDb", "delay", "clear", "load" },
     dir : BackupDirs]

\* boot() goes on past `await init()` without waiting for init() to
\* return.
InitReturned_NotAwaited(calls) == TRUE

\* `await init()` has returned: no init() call is in flight.
InitReturned(calls) == \A h \in calls : h.call # "init"

\* The engine boots on the store an earlier session left in context.db.
InitBoot ==
    /\ memory \in { {}, HydrateOutcome({}, [isArray |-> TRUE,
                                             records |-> <<RecFull>>]) }
    /\ engrams = {}
    /\ backups = <<>>
    /\ clock = 0
    /\ inference = NoInference
    /\ last = [op |-> "boot", status |-> "booting"]
    /\ \E dir \in BackupDirs :
          inflight = { BootCall,
                       [call |-> "init", pc |-> "initializeDb", dir |-> dir] }

\* init() resumes after its await and runs to its next await or to its
\* end.  initializeDb() that throws rejects init(); the catch block of
\* boot() logs it and process.exit(1) ends every call.  autoHydrate
\* catches its own failures.
initStep(h, dbOk) ==
    /\ h \in inflight
    /\ LET awaits(pc) == (inflight \ { h }) \cup { [h EXCEPT !.pc = pc] }
           returns    == inflight \ { h }
           outcome    == IF HydrationFails(h.dir) THEN "failed" ELSE "done"
       IN  CASE h.pc = "initializeDb" ->
                  /\ memory' = memory
                  /\ IF dbOk
                     THEN /\ inflight' = awaits("delay")
                          /\ last' = [op |-> "init", status |-> "schema"]
                     ELSE /\ inflight' = {}
                          /\ last' = [op |-> "boot", status |-> "exit"]
             [] h.pc = "delay" ->
                  /\ memory' = memory
                  /\ last' = [op |-> "init", status |-> "delayed"]
                  /\ inflight' = IF h.dir.exists /\ h.dir.files # <<>>
                                 THEN awaits("clear") ELSE returns
             [] h.pc = "clear" ->
                  IF h.dir.rmOk
                  THEN /\ memory' = {}
                       /\ inflight' = awaits("load")
                       /\ last' = [op |-> "init", status |-> "cleared"]
                  ELSE /\ memory' = memory
                       /\ inflight' = returns
                       /\ last' = [op |-> "init", status |-> outcome]
             [] h.pc = "load" ->
                  /\ memory' = HydrateOutcome(memory,
                                              h.dir.files[Len(h.dir.files)])
                  /\ inflight' = returns
                  /\ last' = [op |-> "init", status |-> outcome]
    /\ UNCHANGED <<engrams, backups, clock, inference>>

\* boot() after `await init()`: setupFileWatcher() and app.listen() run
\* one after the other, and boot() returns.
bootStart ==
    /\ BootCall \in inflight
    /\ InitReturned(inflight)
    /\ inflight' = (inflight \ { BootCall }) \cup
                       { WatcherHandle, ListenerHandle }
    /\ last' = [op |-> "boot", status |-> "started", hydration |-> last.status]
    /\ UNCHANGED <<memory, engrams, backups, clock, inference>>

\* An add or change event of the started watcher.
watcherEvent(relPath, kind, size, content, fault) ==
    /\ WatcherHandle \in inflight
    /\ handleFileChange(relPath, kind, size, content, fault)

NextBoot ==
    \/ \E h \in InitCalls, dbOk \in BOOLEAN : initStep(h, dbOk)
    \/ bootStart
    \/ \E p \in WatchedPaths, st \in FileStats, c \in Contents, f \in Faults :
          watcherEvent(p, st.kind, st.size, c, f)

SpecBoot == InitBoot /\ [][NextBoot]_vars

\* The event loop runs every continuation that is ready: init() is
\* resumed after each await, and boot() after init() has returned.
SpecBootFair ==
    /\ SpecBoot
    /\ WF_vars(\E h \in InitCalls, dbOk \in BOOLEAN : initStep(h, dbOk))
    /\ WF_vars(bootStart)

\* C30: the watcher and the listener are in place only when init() has
\* returned, so after schema initialization and auto-hydration; no watcher
\* event is handled and no row is written by the watcher while init() is
\* in flight; and a failed hydration is followed by the start of the
\* watcher and the listener.
C30_StartAfterHydration ==
    /\ []((WatcherHandle \in inflight \/ ListenerHandle \in inflight)
             => \A h \in inflight : h.call # "init")
    /\ [][last'.op = "handleFileChange" =>
             \A h \in inflight : h.call # "init"]_vars
    /\ (last.op = "init" /\ last.status = "failed")
          ~> (WatcherHandle \in inflight /\ ListenerHandle \in inflight)

\* The watcher and the listener were started after a hydration that failed
\* and left the store empty.
C30_Witness ==
    /\ last.op = "boot"
    /\ last.status = "started"
    /\ last.hydration = "failed"
    /\ WatcherHandle \in inflight
    /\ ListenerHandle \in inflight

====
